---- MODULE Spec2Model ----
(***************************************************************************)
(* Model of the jobtree backend (src/server.js): the User, Posting and     *)
(* Contact collections kept in MongoDB, and the express routes that read   *)
(* and write them.  Every database round trip (findOne, find, insert,      *)
(* findOneAndDelete, the updateOne behind document.save()) is one atomic   *)
(* step; the synchronous handler code around a round trip belongs to the   *)
(* step of that round trip.  POST /users, whose one round trip is the      *)
(* insert of user.save(), is one step.  A handler is an operator from the  *)
(* request and the collections to an outcome: the response sent and the    *)
(* collections as the step leaves them.  The token lookup of               *)
(* authenticateUser is taken in the same step as the handler's first round *)
(* trip: users are never changed or removed, so a token that resolved to a *)
(* user resolves to the same user at every later moment.                   *)
(***************************************************************************)
EXTENDS Naturals, Sequences, FiniteSets

VARIABLES
    users,      \* the User collection: a set of user documents
    postings,   \* the Posting collection: _id -> document
    contacts,   \* the Contact collection: _id -> document
    nextId,     \* the next ObjectId the driver hands out (never reused)
    now,        \* the wall clock read by Date.now / new Date()
    inflight,   \* per request slot: a request suspended at an await
    creator,    \* observer: record _id -> name of the user authenticated at its POST
    issued      \* observer: user name -> accessToken disclosed by its 201

vars == <<users, postings, contacts, nextId, now, inflight, creator, issued>>

(***************************************************************************)
(* Bounds of the model.                                                    *)
(***************************************************************************)
MaxIds == 2
MaxTime == 1
MaxProcs == 2

Procs == 1..MaxProcs
Ids == 1..MaxIds

(***************************************************************************)
(* Values of request fields.  undefined is a field absent from the body    *)
(* (or a header that was not sent); "" is the empty string.  Both are      *)
(* falsy in JavaScript.                                                    *)
(***************************************************************************)
undefined == "undefined"
null == [null |-> TRUE]

Truthy(v) == v # undefined /\ v # ""

\* a || b on strings
Or(a, b) == IF Truthy(a) THEN a ELSE b

Names == {"alice", "bob"}
Passwords == {"pw1", "pw2"}
Salts == {"s1", "s2"}

\* e-mail addresses are character sequences so that the validator can be run on
\* them; <<>> is the empty (or absent) address, which is falsy
Emails ==
    { <<"a", "@", "x", ".", "c">>,
      <<"b", "@", "x", ".", "c">>,
      <<"c", "@", "x", ".", "y", ".", "c">>,
      <<"a", "@", "x">>,
      <<"a", " ", "@", "x", ".", "c">>,
      <<>> }

TokenSeq == <<"T1", "T2", "T3">>
Tokens == { TokenSeq[i] : i \in 1..Len(TokenSeq) }

StageEnum == {"applied", "interview", "offer", "rejected"}


(***************************************************************************)
(* Library functions the handlers call.                                    *)
(***************************************************************************)

\* User.email validate.validator: /^[^\s@]+@[^\s@]+\.[^\s@]+$/.test(v)
emailValidator(v) ==
    \E i \in 1..Len(v), j \in 1..Len(v) :
        /\ 1 < i
        /\ i + 1 < j
        /\ j < Len(v)
        /\ v[i] = "@"
        /\ v[j] = "."
        /\ \A k \in 1..Len(v) : k # i => (v[k] # " " /\ v[k] # "@")

\* bcrypt.hashSync(password): the salt drawn and the digest of salt and
\* password, never the plaintext
hashSync(password, salt) == [salt |-> salt, digest |-> <<salt, password>>]

\* bcrypt.compareSync(password, hash), for a string password: the digest of
\* the password under the salt the hash carries
compareSync(password, hash) == hash.digest = <<hash.salt, password>>

\* accessToken default: crypto.randomBytes(128).toString("hex"), 1024 random
\* bits: a value no stored user carries.  The default is evaluated by
\* new User(...), but nothing can observe the value before the document is
\* stored, so it is drawn when the insert happens.
randomBytes ==
    TokenSeq[CHOOSE i \in 1..Len(TokenSeq) :
                /\ TokenSeq[i] \notin { u.accessToken : u \in users }
                /\ \A k \in 1..(i - 1) : TokenSeq[k] \in { u.accessToken : u \in users }]

(***************************************************************************)
(* Queries on the collections.                                             *)
(***************************************************************************)

\* User.findOne({ name: userName })
UserFindOneByName(userName) ==
    IF \E u \in users : u.name = userName
    THEN CHOOSE u \in users : u.name = userName
    ELSE null

\* User.findOne({ accessToken: req.header("Authorization") }).  Every stored
\* user carries a string accessToken, so an absent header matches nobody.
UserFindOneByToken(header) ==
    IF \E u \in users : u.accessToken = header
    THEN CHOOSE u \in users : u.accessToken = header
    ELSE null

\* a lookup in which an absent header is no condition at all
authenticateUserAbsentMatchesAny(header) ==
    IF header = undefined /\ users # {}
    THEN CHOOSE u \in users : TRUE
    ELSE UserFindOneByToken(header)

\* authenticateUser: the user put in req.user, or null when the middleware
\* answers 401 and does not call next()
authenticateUser(header) == UserFindOneByToken(header)

\* a store whose only unique index is the one on User.name
UniqueIndexOnNameOnly(doc) == \E u \in users : u.name = doc.name

\* the unique indexes on User.name and User.email refuse the insert
UniqueIndexViolated(doc) ==
    \E u \in users : u.name = doc.name \/ u.email = doc.email

\* a lookup by _id alone
PostingFindOneById(id, userName) ==
    IF id \in DOMAIN postings THEN postings[id] ELSE null

\* Posting.findOne({ _id: postingId, userName: req.user.name })
PostingFindOne(id, userName) ==
    IF id \in DOMAIN postings /\ postings[id].userName = userName
    THEN postings[id]
    ELSE null

\* Posting.find({ userName: req.user.name }), as the set of ids returned
PostingFind(userName) ==
    { id \in DOMAIN postings : postings[id].userName = userName }

\* Contact.findOne({ _id: contactId, userName: req.user.name })
ContactFindOne(id, userName) ==
    IF id \in DOMAIN contacts /\ contacts[id].userName = userName
    THEN contacts[id]
    ELSE null

\* Contact.find({ userName: req.user.name }), as the set of ids returned
ContactFind(userName) ==
    { id \in DOMAIN contacts : contacts[id].userName = userName }

\* a function with one more / one fewer point
Put(f, k, v) == [x \in DOMAIN f \cup {k} |-> IF x = k THEN v ELSE f[x]]
Drop(f, k) == [x \in DOMAIN f \ {k} |-> f[x]]

\* document.save() on a document loaded by findOne: mongoose sends
\* updateOne({_id}, {$set: <the paths whose value was changed>}); it never
\* inserts.  stored is the record as it is in the collection now, orig the
\* record as findOne returned it, doc the record after the handler's
\* assignments.
SaveDelta(stored, orig, doc) ==
    [f \in DOMAIN stored |-> IF doc[f] # orig[f] THEN doc[f] ELSE stored[f]]


(***************************************************************************)
(* Outcomes of a request step.                                             *)
(***************************************************************************)
Idle == [op |-> "idle"]

\* The outcome of a step that writes nothing: the response status (0: none
\* sent), whether the route handler was entered, and req.user.name.  A step
\* that writes, suspends at an await or sends a body overrides the other
\* fields: the collections as the step leaves them, the request suspended
\* (await), the ids listed, the accessToken disclosed.
Out(status, reached, user) ==
    [status |-> status, reached |-> reached, user |-> user,
     users |-> users, postings |-> postings, contacts |-> contacts,
     nextId |-> nextId, creator |-> creator, issued |-> issued,
     await |-> Idle, ids |-> {}, accessToken |-> undefined, body |-> "error"]

\* res.status(401).json({ error: "User logged out" }) of authenticateUser
LoggedOut == Out(401, FALSE, undefined)

\* the step leaves the collections as its outcome says
Commit(out) ==
    /\ users' = out.users
    /\ postings' = out.postings
    /\ contacts' = out.contacts
    /\ nextId' = out.nextId
    /\ creator' = out.creator
    /\ issued' = out.issued

Init ==
    /\ users = {}
    /\ postings = [x \in {} |-> null]
    /\ contacts = [x \in {} |-> null]
    /\ nextId = 1
    /\ now = 0
    /\ inflight = [p \in Procs |-> Idle]
    /\ creator = [x \in {} |-> undefined]
    /\ issued = [n \in Names |-> undefined]

\* time passes
Tick ==
    /\ now < MaxTime
    /\ now' = now + 1
    /\ UNCHANGED <<users, postings, contacts, nextId, inflight, creator, issued>>

(***************************************************************************)
(* POST /users                                                             *)
(***************************************************************************)
UserBodies ==
    [user : Names \cup {undefined}, email : Emails, password : Passwords \cup {undefined}]

\* POST /users: the presence checks, new User(...) with the hashed password,
\* then user.save(): schema validation and the insert under the unique
\* indexes; whatever save() throws is caught and answered 400.  salt is the
\* salt bcrypt draws.
CreateUserOut(body, salt) ==
    IF ~Truthy(body.user) \/ body.email = <<>> \/ ~Truthy(body.password)
    THEN Out(400, TRUE, undefined)
    ELSE LET doc == [name |-> body.user,
                     email |-> body.email,
                     password |-> hashSync(body.password, salt),
                     accessToken |-> randomBytes]
         IN  IF ~emailValidator(doc.email) \/ UniqueIndexViolated(doc)
             THEN Out(400, TRUE, undefined)
             ELSE [Out(201, TRUE, undefined) EXCEPT
                      !.users = users \cup {doc},
                      !.issued = [issued EXCEPT ![doc.name] = doc.accessToken],
                      !.accessToken = doc.accessToken,
                      !.body = "user"]

CreateUser(body, salt) ==
    /\ Commit(CreateUserOut(body, salt))
    /\ UNCHANGED <<now, inflight>>

(***************************************************************************)
(* POST /users/:userName                                                   *)
(***************************************************************************)

\* a login that issues a new token
LoginTokenReissued(user) == randomBytes

\* the accessToken the login response carries
LoginToken(user) == user.accessToken

\* the res.json / res.status().json calls the handler makes, in order.
\* bcrypt.compareSync throws on an undefined password, which ends the handler.
LoginSends(userName, password) ==
    LET user == UserFindOneByName(userName)
        missing == IF ~Truthy(password)
                   THEN << [Out(200, TRUE, undefined) EXCEPT !.body = "error"] >>
                   ELSE << >>
        verdict == IF user = null
                   THEN << [Out(401, TRUE, undefined) EXCEPT !.body = "notFound"] >>
                   ELSE IF password = undefined
                   THEN << >>
                   ELSE IF compareSync(password, user.password)
                   THEN << [Out(200, TRUE, undefined) EXCEPT
                               !.body = "login",
                               !.accessToken = LoginToken(user)] >>
                   ELSE << [Out(401, TRUE, undefined) EXCEPT !.body = "notFound"] >>
    IN  missing \o verdict

\* the client is sent the first of them: a later res.json finds the headers
\* sent and throws
LoginOut(userName, password) == Head(LoginSends(userName, password))

Login(userName, password) ==
    /\ Commit(LoginOut(userName, password))
    /\ UNCHANGED <<now, inflight>>

(***************************************************************************)
(* Postings                                                                *)
(***************************************************************************)

\* a constructor call that lets the body name the owner
NewPostingUserNameFromBody(user, body) == Or(body.userName, user.name)

\* userName: req.user.name of new Posting({...})
NewPostingUserName(user, body) == user.name

\* POST /postings
CreatePostingOut(header, body) ==
    LET user == authenticateUser(header) IN
    IF user = null
    THEN LoggedOut
    ELSE IF ~Truthy(body.jobTitle) \/ ~Truthy(body.company)
    THEN Out(400, TRUE, user.name)
    ELSE [Out(201, TRUE, user.name) EXCEPT
             !.postings = Put(postings, nextId,
                              [jobTitle |-> body.jobTitle,
                               company |-> body.company,
                               stage |-> "applied",
                               createdAt |-> now,
                               userName |-> NewPostingUserName(user, body),
                               lastStageChange |-> now]),
             !.creator = Put(creator, nextId, user.name),
             !.nextId = nextId + 1,
             !.body = "doc"]

CreatePosting(header, body) ==
    LET out == CreatePostingOut(header, body) IN
    /\ out.status = 201 => nextId <= MaxIds
    /\ Commit(out)
    /\ UNCHANGED <<now, inflight>>

\* GET /postings/user
ListPostingsOut(header) ==
    LET user == authenticateUser(header) IN
    IF user = null
    THEN LoggedOut
    ELSE [Out(200, TRUE, user.name) EXCEPT
             !.ids = PostingFind(user.name), !.body = "list"]

ListPostings(header) ==
    /\ Commit(ListPostingsOut(header))
    /\ UNCHANGED <<now, inflight>>

\* GET /postings/:id
GetPostingOut(header, id) ==
    LET user == authenticateUser(header) IN
    IF user = null
    THEN LoggedOut
    ELSE IF PostingFindOne(id, user.name) = null
    THEN Out(404, TRUE, user.name)
    ELSE [Out(200, TRUE, user.name) EXCEPT !.ids = {id}, !.body = "doc"]

GetPosting(header, id) ==
    /\ Commit(GetPostingOut(header, id))
    /\ UNCHANGED <<now, inflight>>

\* DELETE /postings/:id: Posting.findOneAndDelete({ _id, userName })
DeletePostingOut(header, id) ==
    LET user == authenticateUser(header) IN
    IF user = null
    THEN LoggedOut
    ELSE IF PostingFindOne(id, user.name) = null
    THEN Out(404, TRUE, user.name)
    ELSE [Out(200, TRUE, user.name) EXCEPT
             !.postings = Drop(postings, id),
             !.creator = Drop(creator, id),
             !.body = "success"]

DeletePosting(header, id) ==
    /\ Commit(DeletePostingOut(header, id))
    /\ UNCHANGED <<now, inflight>>

\* assignments that stamp lastStageChange whenever the body carries a stage
PutPostingAssignStampsAnyStage(posting, body, date) ==
    [jobTitle |-> Or(body.jobTitle, posting.jobTitle),
     company |-> Or(body.company, posting.company),
     stage |-> Or(body.stage, posting.stage),
     createdAt |-> posting.createdAt,
     userName |-> posting.userName,
     lastStageChange |-> IF Truthy(body.stage) THEN date ELSE posting.lastStageChange]

\* the assignments PUT /postings/:id makes to the document findOne returned;
\* date is the value of new Date()
PutPostingAssign(posting, body, date) ==
    [jobTitle |-> Or(body.jobTitle, posting.jobTitle),
     company |-> Or(body.company, posting.company),
     stage |-> IF Truthy(body.stage) /\ body.stage # posting.stage
               THEN body.stage
               ELSE Or(body.stage, posting.stage),
     createdAt |-> posting.createdAt,
     userName |-> posting.userName,
     lastStageChange |-> IF Truthy(body.stage) /\ body.stage # posting.stage
                         THEN date
                         ELSE posting.lastStageChange]

\* PUT /postings/:id up to "await posting.save()"
PutPostingFindOut(header, id, body) ==
    LET user == authenticateUser(header) IN
    IF user = null
    THEN LoggedOut
    ELSE IF PostingFindOne(id, user.name) = null
    THEN Out(404, TRUE, user.name)
    ELSE [Out(0, TRUE, user.name) EXCEPT
             !.await = [op |-> "PUT /postings/:id", user |-> user.name,
                        id |-> id, body |-> body,
                        orig |-> PostingFindOne(id, user.name),
                        doc |-> PutPostingAssign(PostingFindOne(id, user.name),
                                                 body, now)]]

PutPostingFind(p, header, id, body) ==
    /\ inflight[p] = Idle
    /\ inflight' = [inflight EXCEPT ![p] = PutPostingFindOut(header, id, body).await]
    /\ UNCHANGED <<users, postings, contacts, nextId, now, creator, issued>>

\* a save() that writes the whole document as an upsert
PutPostingSaveUpsert(r, uncaught) ==
    IF r.doc.stage \notin StageEnum
    THEN Out(uncaught, TRUE, r.user)
    ELSE [Out(200, TRUE, r.user) EXCEPT
             !.postings = Put(postings, r.id, r.doc),
             !.body = "doc"]

\* posting.save() and res.send(posting).  save() throws a ValidationError
\* when the stage is outside the enum, and DocumentNotFoundError when the
\* document is no longer in the collection; nothing catches it: express 4
\* then sends no response (uncaught = 0), express 5 answers 500.
PutPostingSaveOut(r, uncaught) ==
    IF r.doc.stage \notin StageEnum \/ r.id \notin DOMAIN postings
    THEN Out(uncaught, TRUE, r.user)
    ELSE [Out(200, TRUE, r.user) EXCEPT
             !.postings = [postings EXCEPT ![r.id] = SaveDelta(@, r.orig, r.doc)],
             !.body = "doc"]

PutPostingSave(p) ==
    /\ inflight[p].op = "PUT /postings/:id"
    /\ \E uncaught \in {0, 500} : Commit(PutPostingSaveOut(inflight[p], uncaught))
    /\ inflight' = [inflight EXCEPT ![p] = Idle]
    /\ UNCHANGED now

(***************************************************************************)
(* Contacts                                                                *)
(***************************************************************************)

\* userName: req.user.name of new Contact({...})
NewContactUserName(user, body) == user.name

\* GET /contacts
ListContactsOut(header) ==
    LET user == authenticateUser(header) IN
    IF user = null
    THEN LoggedOut
    ELSE [Out(200, TRUE, user.name) EXCEPT
             !.ids = ContactFind(user.name), !.body = "list"]

ListContacts(header) ==
    /\ Commit(ListContactsOut(header))
    /\ UNCHANGED <<now, inflight>>

\* POST /contacts
CreateContactOut(header, body) ==
    LET user == authenticateUser(header) IN
    IF user = null
    THEN LoggedOut
    ELSE IF ~Truthy(body.name) \/ ~Truthy(body.company)
    THEN Out(400, TRUE, user.name)
    ELSE [Out(201, TRUE, user.name) EXCEPT
             !.contacts = Put(contacts, nextId,
                              [name |-> body.name,
                               company |-> body.company,
                               notes |-> IF body.notes = undefined
                                         THEN "" ELSE body.notes,
                               userName |-> NewContactUserName(user, body)]),
             !.creator = Put(creator, nextId, user.name),
             !.nextId = nextId + 1,
             !.body = "doc"]

CreateContact(header, body) ==
    LET out == CreateContactOut(header, body) IN
    /\ out.status = 201 => nextId <= MaxIds
    /\ Commit(out)
    /\ UNCHANGED <<now, inflight>>

\* assignments that take notes from the body alone
PutContactAssignNotesFromBody(contact, body) ==
    [name |-> Or(body.name, contact.name),
     company |-> Or(body.company, contact.company),
     notes |-> body.notes,
     userName |-> contact.userName]

\* the assignments PUT /contacts/:id makes to the document findOne returned
PutContactAssign(contact, body) ==
    [name |-> Or(body.name, contact.name),
     company |-> Or(body.company, contact.company),
     notes |-> Or(body.notes, contact.notes),
     userName |-> contact.userName]

\* PUT /contacts/:id up to "await contact.save()"
PutContactFindOut(header, id, body) ==
    LET user == authenticateUser(header) IN
    IF user = null
    THEN LoggedOut
    ELSE IF ContactFindOne(id, user.name) = null
    THEN Out(404, TRUE, user.name)
    ELSE [Out(0, TRUE, user.name) EXCEPT
             !.await = [op |-> "PUT /contacts/:id", user |-> user.name,
                        id |-> id, body |-> body,
                        orig |-> ContactFindOne(id, user.name),
                        doc |-> PutContactAssign(ContactFindOne(id, user.name),
                                                 body)]]

PutContactFind(p, header, id, body) ==
    /\ inflight[p] = Idle
    /\ inflight' = [inflight EXCEPT ![p] = PutContactFindOut(header, id, body).await]
    /\ UNCHANGED <<users, postings, contacts, nextId, now, creator, issued>>

\* contact.save() and res.send(contact); save() throws DocumentNotFoundError
\* when the document is no longer in the collection
PutContactSaveOut(r, uncaught) ==
    IF r.id \notin DOMAIN contacts
    THEN Out(uncaught, TRUE, r.user)
    ELSE [Out(200, TRUE, r.user) EXCEPT
             !.contacts = [contacts EXCEPT ![r.id] = SaveDelta(@, r.orig, r.doc)],
             !.body = "doc"]

PutContactSave(p) ==
    /\ inflight[p].op = "PUT /contacts/:id"
    /\ \E uncaught \in {0, 500} : Commit(PutContactSaveOut(inflight[p], uncaught))
    /\ inflight' = [inflight EXCEPT ![p] = Idle]
    /\ UNCHANGED now

\* DELETE /contacts/:id: Contact.findOneAndDelete({ _id, userName })
DeleteContactOut(header, id) ==
    LET user == authenticateUser(header) IN
    IF user = null
    THEN LoggedOut
    ELSE IF ContactFindOne(id, user.name) = null
    THEN Out(404, TRUE, user.name)
    ELSE [Out(200, TRUE, user.name) EXCEPT
             !.contacts = Drop(contacts, id),
             !.creator = Drop(creator, id),
             !.body = "success"]

DeleteContact(header, id) ==
    /\ Commit(DeleteContactOut(header, id))
    /\ UNCHANGED <<now, inflight>>

(***************************************************************************)
(* Requests tried                                                          *)
(***************************************************************************)

\* Authorization headers: absent, or one of the token values (each is
\* unknown to the store until a user is issued it; the last never is)
Headers == Tokens \cup {undefined}

LoginPasswords == Passwords \cup {undefined, ""}

NewPostingBodies ==
    [jobTitle : {undefined, "Eng"}, company : {"", "Acme"},
     userName : Names \cup {undefined}]

PutPostingBodies ==
    [jobTitle : {undefined, "Dev"}, company : {"", "Initech"},
     stage : {undefined, "", "applied", "interview", "ghosted"}]

NewContactBodies ==
    [name : {undefined, "Ann"}, company : {"", "Acme"}, notes : {undefined, "met"},
     userName : Names \cup {undefined}]

PutContactBodies ==
    [name : {undefined, "Bea"}, company : {"", "Initech"}, notes : {undefined, "", "call"}]

\* one address and one password a name
AliceSignUp ==
    [user |-> "alice", email |-> <<"a", "@", "x", ".", "c">>, password |-> "pw1"]

SignUps ==
    { AliceSignUp,
      [user |-> "bob", email |-> <<"b", "@", "x", ".", "c">>, password |-> "pw2"] }

\* the requests the full specification issues: those over which the
\* collections it reaches differ
FewHeaders == {undefined, TokenSeq[1], TokenSeq[2]}

FewNewPostingBodies ==
    { [jobTitle |-> "Eng", company |-> "Acme", userName |-> "bob"],
      [jobTitle |-> undefined, company |-> "Acme", userName |-> undefined] }

FewNewContactBodies ==
    { [name |-> "Ann", company |-> "Acme", notes |-> undefined, userName |-> "bob"],
      [name |-> "Ann", company |-> "", notes |-> "met", userName |-> undefined] }

FewPutPostingBodies ==
    { [jobTitle |-> "Dev", company |-> "", stage |-> undefined],
      [jobTitle |-> undefined, company |-> "", stage |-> "interview"] }

FewPutContactBodies ==
    { [name |-> "Bea", company |-> "", notes |-> undefined],
      [name |-> undefined, company |-> "Initech", notes |-> ""] }

(***************************************************************************)
(* Specifications                                                          *)
(***************************************************************************)

\* sign-up and login, over every body
NextUsers ==
    \/ \E body \in UserBodies, salt \in Salts : CreateUser(body, salt)
    \/ \E userName \in Names, password \in LoginPasswords : Login(userName, password)

SpecUsers == Init /\ [][NextUsers]_vars

\* updates of the stage
StagePutPostingBodies ==
    { [jobTitle |-> undefined, company |-> "", stage |-> "interview"],
      [jobTitle |-> undefined, company |-> "", stage |-> "applied"],
      [jobTitle |-> "Dev", company |-> "", stage |-> undefined] }

\* the posting routes of one user, with updates in flight concurrently
NextPostings ==
    \/ Tick
    \/ CreateUser(AliceSignUp, "s1")
    \/ \E header \in {undefined, TokenSeq[1]}, body \in FewNewPostingBodies :
          CreatePosting(header, body)
    \/ ListPostings(TokenSeq[1])
    \/ \E id \in Ids : GetPosting(TokenSeq[1], id)
    \/ \E id \in Ids : DeletePosting(TokenSeq[1], id)
    \/ \E p \in Procs, id \in Ids, body \in StagePutPostingBodies :
          PutPostingFind(p, TokenSeq[1], id, body)
    \/ \E p \in Procs : PutPostingSave(p)

SpecPostings == Init /\ [][NextPostings]_vars

\* every route; one update is in flight at a time, and every other request
\* may run between its findOne and its save
Next ==
    \/ Tick
    \/ \E body \in SignUps : CreateUser(body, "s1")
    \/ \E userName \in Names : Login(userName, "pw1")
    \/ \E header \in FewHeaders, body \in FewNewPostingBodies : CreatePosting(header, body)
    \/ \E header \in FewHeaders : ListPostings(header)
    \/ \E header \in FewHeaders, id \in Ids : GetPosting(header, id)
    \/ \E header \in FewHeaders, id \in Ids : DeletePosting(header, id)
    \/ \E header \in FewHeaders, id \in Ids, body \in FewPutPostingBodies :
          PutPostingFind(1, header, id, body)
    \/ PutPostingSave(1)
    \/ \E header \in FewHeaders : ListContacts(header)
    \/ \E header \in FewHeaders, body \in FewNewContactBodies : CreateContact(header, body)
    \/ \E header \in FewHeaders, id \in Ids, body \in FewPutContactBodies :
          PutContactFind(1, header, id, body)
    \/ PutContactSave(1)
    \/ \E header \in FewHeaders, id \in Ids : DeleteContact(header, id)

Spec == Init /\ [][Next]_vars

(***************************************************************************)
(* Properties                                                              *)
(***************************************************************************)
PutOps == {"PUT /postings/:id", "PUT /contacts/:id"}

\* the updates suspended between findOne and save
Suspended == { inflight[p] : p \in { q \in Procs : inflight[q].op \in PutOps } }

\* what save() of a suspended update would leave and answer
SaveOuts(r) ==
    IF r.op = "PUT /postings/:id"
    THEN { PutPostingSaveOut(r, uncaught) : uncaught \in {0, 500} }
    ELSE { PutContactSaveOut(r, uncaught) : uncaught \in {0, 500} }

\* the outcome leaves both collections as they are and suspends nothing
Untouched(out) ==
    /\ out.postings = postings
    /\ out.contacts = contacts
    /\ out.await = Idle

\* C1: owner isolation.  For every stored user A and every posting or contact
\* created by another user, each request A issues with A's token and that
\* record's id (GET by id, PUT, DELETE) answers 404 and writes nothing, A's
\* lists omit the record, and the save of any update in flight writes no
\* record created by a user other than the one who issued the update.
C1_OwnerIsolation ==
    /\ \A a \in users :
        /\ \A id \in { i \in DOMAIN postings : creator[i] # a.name } :
            /\ GetPostingOut(a.accessToken, id).status = 404
            /\ id \notin ListPostingsOut(a.accessToken).ids
            /\ DeletePostingOut(a.accessToken, id).status = 404
            /\ Untouched(DeletePostingOut(a.accessToken, id))
            /\ \A body \in PutPostingBodies :
                 /\ PutPostingFindOut(a.accessToken, id, body).status = 404
                 /\ Untouched(PutPostingFindOut(a.accessToken, id, body))
        /\ \A id \in { i \in DOMAIN contacts : creator[i] # a.name } :
            /\ id \notin ListContactsOut(a.accessToken).ids
            /\ DeleteContactOut(a.accessToken, id).status = 404
            /\ Untouched(DeleteContactOut(a.accessToken, id))
            /\ \A body \in PutContactBodies :
                 /\ PutContactFindOut(a.accessToken, id, body).status = 404
                 /\ Untouched(PutContactFindOut(a.accessToken, id, body))
    /\ \A r \in Suspended : \A out \in SaveOuts(r) :
        /\ \A id \in { i \in DOMAIN postings : creator[i] # r.user } :
             id \in DOMAIN out.postings /\ out.postings[id] = postings[id]
        /\ \A id \in { i \in DOMAIN contacts : creator[i] # r.user } :
             id \in DOMAIN out.contacts /\ out.contacts[id] = contacts[id]

\* both users are signed up, one owns a posting and a contact, and the other
\* is answered 404 on them
C1_Witness ==
    \E a \in users, b \in users, i \in DOMAIN postings, j \in DOMAIN contacts :
        /\ a # b
        /\ creator[i] = b.name
        /\ creator[j] = b.name
        /\ GetPostingOut(a.accessToken, i).status = 404
        /\ DeleteContactOut(a.accessToken, j).status = 404
        /\ GetPostingOut(b.accessToken, i).status = 200

\* the outcomes of every protected route under one Authorization header
ProtectedOuts(header) ==
    { CreatePostingOut(header, body) : body \in NewPostingBodies }
        \cup { ListPostingsOut(header), ListContactsOut(header) }
        \cup { GetPostingOut(header, id) : id \in Ids }
        \cup { DeletePostingOut(header, id) : id \in Ids }
        \cup { DeleteContactOut(header, id) : id \in Ids }
        \cup { PutPostingFindOut(header, id, body) : id \in Ids, body \in PutPostingBodies }
        \cup { CreateContactOut(header, body) : body \in NewContactBodies }
        \cup { PutContactFindOut(header, id, body) : id \in Ids, body \in PutContactBodies }

\* C2: authentication fails closed.  On every protected route a request
\* whose Authorization header equals no stored accessToken (or is absent) is
\* answered 401, does not enter the handler and writes nothing; a request
\* that enters a handler has req.user set to the one user holding the header
\* as accessToken; and every update in flight was issued by a stored user.
C2_AuthFailsClosed ==
    /\ \A header \in Headers : \A out \in ProtectedOuts(header) :
        /\ header \notin { u.accessToken : u \in users } =>
              /\ out.status = 401
              /\ ~out.reached
              /\ Untouched(out)
              /\ out.creator = creator /\ out.nextId = nextId
        /\ out.reached =>
              /\ Cardinality({ u \in users : u.accessToken = header }) = 1
              /\ \E u \in users : u.accessToken = header /\ out.user = u.name
    /\ \A r \in Suspended : \E u \in users : u.name = r.user

\* a user is signed up and owns a posting; the absent header and a token
\* nobody holds are answered 401, the user's own token enters the handler
C2_Witness ==
    /\ postings # << >>
    /\ \E u \in users, t \in Tokens :
        /\ t \notin { v.accessToken : v \in users }
        /\ ListPostingsOut(undefined).status = 401
        /\ ListPostingsOut(t).status = 401
        /\ ListPostingsOut(u.accessToken).reached
        /\ ListPostingsOut(u.accessToken).ids # {}

\* C5: the userName stored on every posting and contact is the name of the
\* user authenticated at the POST that created it, whatever userName the
\* body carried and whatever updates were applied since; and every POST
\* that creates a record stores the name of the user holding its token.
C5_UserNameIsCreator ==
    /\ \A id \in DOMAIN postings : postings[id].userName = creator[id]
    /\ \A id \in DOMAIN contacts : contacts[id].userName = creator[id]
    /\ \A u \in users :
        /\ \A body \in NewPostingBodies :
             LET out == CreatePostingOut(u.accessToken, body) IN
             out.status = 201 => out.postings[nextId].userName = u.name
        /\ \A body \in NewContactBodies :
             LET out == CreateContactOut(u.accessToken, body) IN
             out.status = 201 => out.contacts[nextId].userName = u.name

\* alice owns a posting and a contact, both created by requests whose body
\* named bob and both updated since
C5_Witness ==
    \E i \in DOMAIN postings, j \in DOMAIN contacts :
        /\ creator[i] = "alice" /\ postings[i].userName = "alice"
        /\ postings[i].jobTitle = "Dev"
        /\ creator[j] = "alice" /\ contacts[j].userName = "alice"
        /\ contacts[j].name = "Bea"
        /\ \E b \in users : b.name = "bob"

\* C8: token stability.  Every stored user carries the accessToken its
\* 201 disclosed, in every reachable state, and every successful login
\* answers that token.
C8_TokenStable ==
    /\ \A u \in users : issued[u.name] = u.accessToken
    /\ \A userName \in Names, password \in LoginPasswords :
         LET out == LoginOut(userName, password) IN
         out.body = "login" =>
            /\ issued[userName] # undefined
            /\ out.accessToken = issued[userName]

\* both users signed up, records were created, updated and deleted since,
\* and alice's login answers the token her sign-up disclosed
C8_Witness ==
    /\ Cardinality(users) = 2
    /\ nextId > MaxIds
    /\ DOMAIN postings \cup DOMAIN contacts # 1..MaxIds
    /\ LoginOut("alice", "pw1").body = "login"
    /\ LoginOut("alice", "pw1").accessToken = issued["alice"]

\* the owner's PUT /postings/:id with nothing running between its findOne
\* and its save: the outcome of the save
PutPostingAlone(u, id, body, uncaught) ==
    PutPostingSaveOut(PutPostingFindOut(u.accessToken, id, body).await, uncaught)

\* the owner's PUT /contacts/:id with nothing running between its findOne
\* and its save: the outcome of the save
PutContactAlone(u, id, body, uncaught) ==
    PutContactSaveOut(PutContactFindOut(u.accessToken, id, body).await, uncaught)

\* the postings (contacts) a stored user created
Owned(u, collection) == { i \in DOMAIN collection : creator[i] = u.name }

\* C3 as claimed: for an owner's PUT /postings/:id run without interference,
\* a stage that is absent, falsy or equal to the stored one leaves
\* lastStageChange as it is, and any other stage becomes the stored stage
\* with lastStageChange set to the time of the update.
C3_AnyDifferentStageIsStored ==
    \A u \in users : \A id \in Owned(u, postings) :
    \A body \in PutPostingBodies, uncaught \in {0, 500} :
        /\ PutPostingFindOut(u.accessToken, id, body).await.op = "PUT /postings/:id"
        /\ LET new == PutPostingAlone(u, id, body, uncaught).postings[id] IN
           IF ~Truthy(body.stage) \/ body.stage = postings[id].stage
           THEN new.lastStageChange = postings[id].lastStageChange
           ELSE new.stage = body.stage /\ new.lastStageChange = now

\* C3 as amended: the same, where a different stage is stored and stamped
\* when it is one of the enum's stages; a different stage outside the enum
\* is refused by save(), which answers no 200 and leaves the posting as it is.
C3_StageChangeStamp ==
    \A u \in users : \A id \in Owned(u, postings) :
    \A body \in PutPostingBodies, uncaught \in {0, 500} :
        /\ PutPostingFindOut(u.accessToken, id, body).await.op = "PUT /postings/:id"
        /\ LET out == PutPostingAlone(u, id, body, uncaught)
               new == out.postings[id]
           IN  IF ~Truthy(body.stage) \/ body.stage = postings[id].stage
               THEN new.lastStageChange = postings[id].lastStageChange
               ELSE IF body.stage \in {"applied", "interview", "offer", "rejected"}
               THEN /\ out.status = 200
                    /\ new.stage = body.stage
                    /\ new.lastStageChange = now
               ELSE /\ out.status # 200
                    /\ new = postings[id]

\* a posting whose stage an update changed after the time it was created
C3_Witness ==
    \E id \in DOMAIN postings :
        /\ postings[id].stage = "interview"
        /\ postings[id].lastStageChange > postings[id].createdAt

PostingBodyFields == {"jobTitle", "company", "stage"}
ContactBodyFields == {"name", "company", "notes"}

\* the record an update leaves carries, in each field the body can name,
\* the body's value where it is truthy and the old value elsewhere
Merged(new, old, body, fields) ==
    \A f \in fields : new[f] = IF Truthy(body[f]) THEN body[f] ELSE old[f]

\* the two collections differ at most in record id of one of them
OthersKept(out, id) ==
    /\ DOMAIN out.postings = DOMAIN postings
    /\ DOMAIN out.contacts = DOMAIN contacts
    /\ \A i \in DOMAIN postings \ {id} : out.postings[i] = postings[i]
    /\ \A i \in DOMAIN contacts \ {id} : out.contacts[i] = contacts[i]

Deleted ==
    { id \in Ids : id < nextId /\ id \notin DOMAIN postings /\ id \notin DOMAIN contacts }

\* C9: deletion is permanent.  A deleted id is in neither collection in any
\* later state, whatever runs (the save of an update that read the record
\* before the delete included), and every GET, PUT or DELETE a stored user
\* issues on it is answered 404.
C9_DeletionPermanent ==
    /\ [][\A id \in Deleted : id \notin DOMAIN postings' /\ id \notin DOMAIN contacts']_vars
    /\ [](\A id \in Deleted : \A u \in users :
            /\ GetPostingOut(u.accessToken, id).status = 404
            /\ DeletePostingOut(u.accessToken, id).status = 404
            /\ DeleteContactOut(u.accessToken, id).status = 404
            /\ \A body \in PutPostingBodies :
                 PutPostingFindOut(u.accessToken, id, body).status = 404
            /\ \A body \in PutContactBodies :
                 PutContactFindOut(u.accessToken, id, body).status = 404)

\* an update read its record, the record was deleted, and the update's
\* save is still to come
C9_Witness ==
    \E r \in Suspended :
        /\ r.id \in Deleted
        /\ r.doc # r.orig

\* C10: in every step, a posting's stored lastStageChange changes only if
\* the step also changes its stored stage.
C10_StampOnlyWithStageChange ==
    [][\A id \in DOMAIN postings \cap DOMAIN postings' :
          postings'[id].lastStageChange # postings[id].lastStageChange
             => postings'[id].stage # postings[id].stage]_vars

\* a user of that name is stored and the password is the one it signed up with
CredentialsMatch(userName, password) ==
    \E u \in users :
        /\ u.name = userName
        /\ password \in Passwords
        /\ u.password = hashSync(password, u.password.salt)

\* C6: POST /users/:userName answers 200 with the user's name and
\* accessToken only when the user exists and the password matches; in every
\* other case (unknown name, wrong password, password missing) the response
\* is the one 401, the same whether or not the name exists, and carries no
\* accessToken.
C6_LoginUnauthenticatedUnlessMatch ==
    \A userName \in Names, password \in LoginPasswords :
        LET out == LoginOut(userName, password) IN
        IF CredentialsMatch(userName, password)
        THEN /\ out.status = 200
             /\ out.body = "login"
             /\ \E u \in users : u.name = userName /\ out.accessToken = u.accessToken
        ELSE /\ out.status = 401
             /\ out.body = "notFound"
             /\ out.accessToken = undefined

\* the addresses among Emails that are of the form local@domain.tld
WellFormedEmails ==
    { <<"a", "@", "x", ".", "c">>,
      <<"b", "@", "x", ".", "c">>,
      <<"c", "@", "x", ".", "y", ".", "c">> }

\* C7: a POST /users whose name or e-mail is that of a stored user is
\* answered 400 and stores nothing; one with name, e-mail and password
\* present, a well-formed e-mail and name and e-mail both unused is answered
\* 201 and stores exactly that user; and no two stored users share a name,
\* an e-mail or an accessToken.
C7_UsersUnique ==
    /\ \A u \in users, v \in users :
         u # v => /\ u.name # v.name
                  /\ u.email # v.email
                  /\ u.accessToken # v.accessToken
    /\ \A body \in UserBodies, salt \in Salts :
         LET out == CreateUserOut(body, salt)
             used == \E u \in users : u.name = body.user \/ u.email = body.email
         IN  /\ used => out.status = 400 /\ out.users = users
             /\ (/\ ~used
                 /\ body.user \in Names
                 /\ body.password \in Passwords
                 /\ body.email \in WellFormedEmails)
                  => /\ out.status = 201
                     /\ \E doc \in out.users :
                          /\ out.users = users \cup {doc}
                          /\ doc \notin users
                          /\ doc.name = body.user
                          /\ doc.email = body.email
                          /\ out.accessToken = doc.accessToken

\* two users are stored, and a further sign-up under a stored name, and one
\* under a stored e-mail with a free name's body, are answered 400
C7_Witness ==
    /\ Cardinality(users) = 2
    /\ \E u \in users, v \in users :
        /\ u # v
        /\ CreateUserOut([user |-> u.name, email |-> <<"c", "@", "x", ".", "y", ".", "c">>,
                          password |-> "pw1"], "s1").status = 400
        /\ u.email # <<"c", "@", "x", ".", "y", ".", "c">>
        /\ v.email # <<"c", "@", "x", ".", "y", ".", "c">>

====
